---------------------------- MODULE Spec2Model ----------------------------
(***************************************************************************)
(* The research pipeline of The Research Archive: the App component's      *)
(* state (src/App.tsx) driven by handleResearch, and the four stage        *)
(* functions of src/services/geminiService.ts.                             *)
(*                                                                         *)
(* Strings are sequences of characters, so trim, join and the fallback of  *)
(* the planner are computed.  A text-generation response is a record       *)
(* [hasText, text]: hasText = FALSE is response.text === undefined.        *)
(* The structured response of the writer is a sequence of JSON tokens that *)
(* JSONParse parses.                                                       *)
(***************************************************************************)
EXTENDS Integers, Sequences, FiniteSets, TLC

VARIABLES
    apiKey,        \* useState('')          App.tsx:19
    query,         \* useState('')          App.tsx:20
    step,          \* useState('idle')      App.tsx:21
    refinedTopic,  \* useState('')          App.tsx:22
    report,        \* useState(null)        App.tsx:23
    error,         \* useState(null)        App.tsx:24
    envApiKey,     \* process.env.API_KEY   geminiService.ts:9
    runs,          \* the invocations of handleResearch, in order of start
    stepLog,       \* the values step has taken since the last run started
    lastEvent      \* the handler or continuation that ran last

vars == <<apiKey, query, step, refinedTopic, report, error, envApiKey,
          runs, stepLog, lastEvent>>

-----------------------------------------------------------------------------
(* Bounds *)

\* handleResearch invocations that pass the empty-query guard, per behaviour
MaxRuns == 2

-----------------------------------------------------------------------------
(* Values *)

null == "null"

Whitespace == {" ", "\n"}

\* what the user can type in the query field
Queries == { <<>>, <<" ">>, <<" ", "a">> }

\* what the user can paste in the API key field
ApiKeys == { "", "k" }

\* process.env.API_KEY of the build: unset, or set
EnvApiKeys == { "", "e" }

Undefined == [hasText |-> FALSE, text |-> <<>>]

Text(s) == [hasText |-> TRUE, text |-> s]

\* responses of generateContent to the planner's prompt
PlanResponses == { Undefined, Text(<<>>), Text(<<" ">>), Text(<<"b", " ">>) }

\* responses of generateContent to the extraction prompt of a document:
\* no text, or the facts of that document
ExtractResponses(source) == { Undefined, Text(<<"Facts of ", source>>) }

\* why the first generateContent call of a run rejects: the credential is
\* refused, or the request fails
RejectCauses == { "credential", "generation" }

\* why a later call of the run rejects, the credential having been accepted
LaterRejectCauses == { "generation" }

-----------------------------------------------------------------------------
(* String functions *)

RECURSIVE TrimStart(_)
TrimStart(s) ==
    IF s # <<>> /\ Head(s) \in Whitespace THEN TrimStart(Tail(s)) ELSE s

RECURSIVE TrimEnd(_)
TrimEnd(s) ==
    IF s # <<>> /\ s[Len(s)] \in Whitespace
    THEN TrimEnd(SubSeq(s, 1, Len(s) - 1))
    ELSE s

\* String.prototype.trim
Trim(s) == TrimEnd(TrimStart(s))

\* Array.prototype.join of an array of strings
RECURSIVE Join(_, _)
Join(results, sep) ==
    IF results = <<>> THEN <<>>
    ELSE IF Len(results) = 1 THEN results[1]
    ELSE results[1] \o sep \o Join(Tail(results), sep)


-----------------------------------------------------------------------------
(* Outcomes of a call: a returned value, or a thrown Error with its message. *)
(* cause is the class of the underlying failure, kept beside the message.    *)

Ok(v) == [ok |-> TRUE, value |-> v]

Throw(m, c) == [ok |-> FALSE, message |-> m, cause |-> c]

\* ai.models.generateContent settles: it rejects, or resolves with a response
Rejected(c) == [rejected |-> TRUE, cause |-> c, response |-> Undefined]

Resolved(resp) == [rejected |-> FALSE, cause |-> "none", response |-> resp]

GenOutcomes(causes, responses) ==
    { Rejected(c) : c \in causes } \cup { Resolved(x) : x \in responses }

-----------------------------------------------------------------------------
(* The structured response of the writer *)

Required == { "title", "summary", "key_points", "verdict" }

NullReport == [isNull |-> TRUE, fields |-> {}, key_points |-> 0]

\* the JSON text of an object with the members fs, key_points an array of n
ObjectText(fs, n) ==
    <<"{">>
    \o (IF "title" \in fs THEN <<"title">> ELSE <<>>)
    \o (IF "summary" \in fs THEN <<"summary">> ELSE <<>>)
    \o (IF "key_points" \in fs
        THEN <<"key_points", "[">> \o [i \in 1..n |-> "p"] \o <<"]">>
        ELSE <<>>)
    \o (IF "verdict" \in fs THEN <<"verdict">> ELSE <<>>)
    \o <<"}">>

\* responses of generateContent to the writer's prompt
WriteResponses ==
    { Undefined,
      Text(<<>>),
      Text(<<"{", "title">>),
      Text(<<"null">>),
      Text(ObjectText(Required, 2)),
      Text(ObjectText(Required, 1)),
      Text(ObjectText(Required, 6)),
      Text(ObjectText(Required \ {"verdict"}, 3)),
      Text(ObjectText(Required \ {"key_points"}, 0)) }

RECURSIVE CountItems(_)
CountItems(toks) ==
    IF toks # <<>> /\ Head(toks) = "p" THEN 1 + CountItems(Tail(toks)) ELSE 0

RECURSIVE ParseMembers(_, _)
ParseMembers(toks, acc) ==
    IF toks = <<>> THEN Ok(acc)
    ELSE IF Head(toks) \in {"title", "summary", "verdict"}
    THEN ParseMembers(Tail(toks),
                      [acc EXCEPT !.fields = acc.fields \cup {Head(toks)}])
    ELSE IF Head(toks) = "key_points" /\ Len(toks) >= 3 /\ toks[2] = "["
    THEN LET n == CountItems(SubSeq(toks, 3, Len(toks)))
         IN  IF Len(toks) >= 3 + n /\ toks[3 + n] = "]"
             THEN ParseMembers(SubSeq(toks, 4 + n, Len(toks)),
                               [acc EXCEPT !.fields = acc.fields \cup {"key_points"},
                                           !.key_points = n])
             ELSE Throw("SyntaxError", "parse")
    ELSE Throw("SyntaxError", "parse")

\* JSON.parse: the value of a JSON text, or a SyntaxError
JSONParse(text) ==
    IF text = <<"null">> THEN Ok(NullReport)
    ELSE IF Len(text) >= 2 /\ text[1] = "{" /\ text[Len(text)] = "}"
    THEN ParseMembers(SubSeq(text, 2, Len(text) - 1),
                      [isNull |-> FALSE, fields |-> {}, key_points |-> 0])
    ELSE Throw("SyntaxError", "parse")

-----------------------------------------------------------------------------
(* src/services/geminiService.ts *)

getClient(key) ==
    LET k == IF key # "" THEN key ELSE envApiKey
    IN  IF k = ""
        THEN Throw("API Key is missing. Please provide it in the input field.",
                   "credential")
        ELSE Ok(k)

\* (mutant) planTopic without the fallback: return response.text.trim()
planTopicNoFallback(userQuery, key, gen) ==
    IF ~getClient(key).ok \/ gen.rejected
    THEN Throw("Could not plan the research topic. Check your API Key.",
               IF gen.rejected /\ getClient(key).ok THEN gen.cause ELSE "credential")
    ELSE Ok(Trim(gen.response.text))

\* planTopic, given how its generateContent call settles
planTopic(userQuery, key, gen) ==
    LET try == IF ~getClient(key).ok THEN getClient(key)
               ELSE IF gen.rejected THEN Throw("generateContent", gen.cause)
               ELSE IF gen.response.hasText /\ Trim(gen.response.text) # <<>>
               THEN Ok(Trim(gen.response.text))
               ELSE Ok(userQuery)
    IN  IF try.ok THEN try
        ELSE Throw("Could not plan the research topic. Check your API Key.",
                   try.cause)

fetchMockSearch(topic) ==
    << [source  |-> "Academic Paper",
        content |-> <<"Recent studies show ">> \o topic
                    \o <<" is accelerating due to GPU costs dropping by 40%.">>],
       [source  |-> "Tech Blog",
        content |-> <<"Developers are complaining that ">> \o topic
                    \o <<" is hard to debug, leading to a 20% slowdown in production.">>],
       [source  |-> "Market Report",
        content |-> <<"Investors have poured $5B into ">> \o topic
                    \o <<" related startups in Q4 2024.">>] >>

\* the per-document calls mapContent issues: documents.map(async (doc) => ...)
ExtractCalls(documents) ==
    [i \in 1..Len(documents) |->
        [source |-> documents[i].source,
         prompt |-> <<"Extract key facts from: ", documents[i].source, ": ">>
                    \o documents[i].content,
         status |-> "pending",
         value  |-> <<>>,
         cause  |-> "none"]]

\* a per-document call settles: return response.text || ""
ExtractSettle(call, gen) ==
    IF gen.rejected
    THEN [call EXCEPT !.status = "rejected", !.cause = gen.cause]
    ELSE [call EXCEPT !.status = "fulfilled",
                      !.value = IF gen.response.hasText THEN gen.response.text
                                ELSE <<>>]

\* (mutant) Promise.any: fulfilled as soon as one promise is
PromiseAnyState(calls) ==
    IF calls = <<>> \/ \E i \in DOMAIN calls : calls[i].status = "fulfilled"
    THEN "fulfilled"
    ELSE IF \A i \in DOMAIN calls : calls[i].status = "rejected" THEN "rejected"
    ELSE "pending"

\* (mutant) Promise.allSettled: fulfilled once no promise is pending
PromiseAllSettledState(calls) ==
    IF \A i \in DOMAIN calls : calls[i].status # "pending" THEN "fulfilled"
    ELSE "pending"

\* Promise.all(promises): rejected as soon as one promise is, fulfilled when all are
PromiseAllState(calls) ==
    IF \E i \in DOMAIN calls : calls[i].status = "rejected" THEN "rejected"
    ELSE IF \A i \in DOMAIN calls : calls[i].status = "fulfilled" THEN "fulfilled"
    ELSE "pending"

\* (mutant) the values in the order the promises settled
PromiseAllValuesByArrival(calls, order) ==
    [k \in DOMAIN calls |-> calls[order[k]].value]

\* the array Promise.all fulfils with: the values by index of the promise;
\* order is the order in which the promises settled
PromiseAllValues(calls, order) == [i \in DOMAIN calls |-> calls[i].value]

\* (mutant) a mapContent that refuses an empty list of documents
mapContentNeedsDocuments(calls, order, key) ==
    LET try == IF ~getClient(key).ok THEN getClient(key)
               ELSE IF calls = <<>> THEN Throw("No documents", "generation")
               ELSE IF PromiseAllState(calls) = "rejected"
               THEN Throw("generateContent",
                          calls[order[Len(order)]].cause)
               ELSE Ok(Join(PromiseAllValues(calls, order), <<"\n">>))
    IN  IF try.ok THEN try
        ELSE Throw("Could not extract facts from sources.", try.cause)

\* mapContent once Promise.all has settled (or getClient has thrown)
mapContent(calls, order, key) ==
    LET try == IF ~getClient(key).ok THEN getClient(key)
               ELSE IF PromiseAllState(calls) = "rejected"
               THEN Throw("generateContent",
                          calls[order[Len(order)]].cause)
               ELSE Ok(Join(PromiseAllValues(calls, order), <<"\n">>))
    IN  IF try.ok THEN try
        ELSE Throw("Could not extract facts from sources.", try.cause)

\* writeReport, given how its generateContent call settles
writeReport(rawNotes, key, gen) ==
    LET try == IF ~getClient(key).ok THEN getClient(key)
               ELSE IF gen.rejected THEN Throw("generateContent", gen.cause)
               ELSE IF ~gen.response.hasText \/ gen.response.text = <<>>
               THEN Throw("No response generated", "generation")
               ELSE JSONParse(gen.response.text)
    IN  IF try.ok THEN try
        ELSE Throw("Could not write the final report.", try.cause)

-----------------------------------------------------------------------------
(* src/App.tsx *)

Busy == {"planning", "searching", "mapping", "writing"}

\* (mutant) the controls are never disabled
NeverDisabled == FALSE

\* disabled={step !== 'idle' && step !== 'complete' && step !== 'error'}
Disabled == step # "idle" /\ step # "complete" /\ step # "error"

\* (mutant) if (!query) return;
EmptyQueryNoTrim(q) == q = <<>>

\* if (!query.trim()) return;
EmptyQuery(q) == Trim(q) = <<>>

\* the component renders: report.key_points.map throws on a report without
\* key_points, and the tree is unmounted
Mounted == ~(step = "complete" /\ ~report.isNull /\ "key_points" \notin report.fields)

\* the state values of the pipeline, in the order handleResearch sets them
AfterRun == "planning"
AfterPlan == "searching"
\* (mutant) the mapping state is skipped
AfterSearchSkipped == "writing"
AfterSearch == "mapping"
AfterMap == "writing"
AfterWrite == "complete"

\* one invocation of handleResearch: its position and its locals
NewRun(q, k) ==
    [pc           |-> "plan",
     query        |-> q,
     apiKey       |-> k,
     plannedTopic |-> <<>>,
     docs         |-> <<>>,
     calls        |-> <<>>,
     order        |-> <<>>,
     notes        |-> <<>>,
     err          |-> null,
     cause        |-> "none"]

\* setStep(s), as seen in the log of step values
Logged(log, from, s) == IF s = from THEN log ELSE Append(log, s)

\* a call of a run that has ended: only whether it is still in flight remains
Detached(call) ==
    [call EXCEPT !.prompt = <<>>, !.value = <<>>, !.cause = "none",
                 !.status = IF call.status = "pending" THEN "pending" ELSE "settled"]

\* handleResearch has returned: its locals are gone, the calls it left in
\* flight are not; err and cause keep what it threw last
Ended(run) ==
    [NewRun(<<>>, "") EXCEPT
        !.pc = "done",
        !.calls = [i \in DOMAIN run.calls |-> Detached(run.calls[i])],
        !.err = run.err,
        !.cause = run.cause]

\* (mutant) the catch block does not end the run
CaughtContinues(run, thrown) ==
    [run EXCEPT !.err = thrown.message, !.cause = thrown.cause]

\* catch (err): the run after the catch block
Caught(run, thrown) ==
    Ended([run EXCEPT !.err = thrown.message, !.cause = thrown.cause])

\* err.message || "An unexpected error occurred during the research process."
ErrorMessage(thrown) ==
    IF thrown.message = ""
    THEN "An unexpected error occurred during the research process."
    ELSE thrown.message

Init ==
    /\ apiKey = ""
    /\ query = <<>>
    /\ step = "idle"
    /\ refinedTopic = <<>>
    /\ report = NullReport
    /\ error = null
    /\ envApiKey \in EnvApiKeys
    /\ runs = <<>>
    /\ stepLog = <<>>
    /\ lastEvent = "mount"

\* onChange={(e) => setQuery(e.target.value)}
SetQuery(q) ==
    /\ Mounted
    /\ ~Disabled
    /\ query' = q
    /\ lastEvent' = "setQuery"
    /\ UNCHANGED <<apiKey, step, refinedTopic, report, error, envApiKey, runs, stepLog>>

\* onChange={(e) => setApiKey(e.target.value)}, rendered when step === 'idle'
SetApiKey(k) ==
    /\ Mounted
    /\ step = "idle"
    /\ apiKey' = k
    /\ lastEvent' = "setApiKey"
    /\ UNCHANGED <<query, step, refinedTopic, report, error, envApiKey, runs, stepLog>>

\* (mutant) a handleResearch that leaves the previous run's values in place
handleResearchKeepsValues ==
    IF EmptyQuery(query)
    THEN UNCHANGED <<step, refinedTopic, report, error, runs, stepLog>>
    ELSE /\ step' = AfterRun
         /\ runs' = Append(runs, NewRun(query, apiKey))
         /\ stepLog' = <<AfterRun>>
         /\ UNCHANGED <<error, report, refinedTopic>>

\* handleResearch up to its first await
handleResearch ==
    IF EmptyQuery(query)
    THEN UNCHANGED <<step, refinedTopic, report, error, runs, stepLog>>
    ELSE /\ step' = AfterRun
         /\ error' = null
         /\ report' = NullReport
         /\ refinedTopic' = <<>>
         /\ runs' = Append(runs, NewRun(query, apiKey))
         /\ stepLog' = <<AfterRun>>

\* the Initiate button is clicked, or Enter is pressed in the query field
Initiate ==
    /\ Mounted
    /\ Disabled \/ EmptyQuery(query) \/ Len(runs) < MaxRuns
    /\ IF Disabled
       THEN UNCHANGED <<step, refinedTopic, report, error, runs, stepLog>>
       ELSE handleResearch
    /\ lastEvent' = "initiate"
    /\ UNCHANGED <<apiKey, query, envApiKey>>

\* (mutant) a catch block that also clears the refined topic
CatchClearsTopic(r, run, thrown, log, from) ==
    /\ error' = ErrorMessage(thrown)
    /\ step' = "error"
    /\ stepLog' = Logged(log, from, "error")
    /\ runs' = [runs EXCEPT ![r] = Caught(run, thrown)]
    /\ refinedTopic' = <<>>
    /\ UNCHANGED report

\* the catch block of handleResearch, run r having thrown
Catch(r, run, thrown, log, from) ==
    /\ error' = ErrorMessage(thrown)
    /\ step' = "error"
    /\ stepLog' = Logged(log, from, "error")
    /\ runs' = [runs EXCEPT ![r] = Caught(run, thrown)]
    /\ UNCHANGED <<refinedTopic, report>>

\* await planTopic(query, apiKey) settles
PlanReturn(r, gen) ==
    /\ runs[r].pc = "plan"
    /\ LET res == planTopic(runs[r].query, runs[r].apiKey, gen)
       IN  IF res.ok
           THEN /\ refinedTopic' = res.value
                /\ step' = AfterPlan
                /\ stepLog' = Logged(stepLog, step, AfterPlan)
                /\ runs' = [runs EXCEPT ![r].pc = "search",
                                        ![r].plannedTopic = res.value]
                /\ lastEvent' = "planOk"
                /\ UNCHANGED <<report, error>>
           ELSE /\ Catch(r, runs[r], res, stepLog, step)
                /\ lastEvent' = "planFail"
    /\ UNCHANGED <<apiKey, query, envApiKey>>

\* (mutant) the search is given the query as typed
SearchTopicIsQuery(run) == run.query

\* the argument of fetchMockSearch: const docs = await fetchMockSearch(plannedTopic)
SearchTopic(run) == run.plannedTopic

\* the lists of documents mapContent can be called with: none, or the three
\* of fetchMockSearch
Documents(topic) == { <<>>, fetchMockSearch(topic) }

\* the search has returned docs: setStep('mapping'), and mapContent(docs, apiKey)
\* runs up to its await; back says that it has returned or thrown by then,
\* having found no client or no promise to wait for
SearchReturned(r, docs) ==
    /\ runs[r].pc = "search"
    /\ LET log   == Logged(stepLog, step, AfterSearch)
           run   == [runs[r] EXCEPT !.docs = docs]
           calls == ExtractCalls(docs)
           res   == mapContent(calls, <<>>, run.apiKey)
           back  == ~getClient(run.apiKey).ok \/ PromiseAllState(calls) # "pending"
       IN  IF back /\ ~res.ok
           THEN /\ Catch(r, run, res, log, AfterSearch)
                /\ lastEvent' = "mapFail"
           ELSE IF back
           THEN /\ step' = AfterMap
                /\ stepLog' = Logged(log, AfterSearch, AfterMap)
                /\ runs' = [runs EXCEPT ![r] =
                              [run EXCEPT !.pc = "write", !.notes = res.value]]
                /\ lastEvent' = "mapOk"
                /\ UNCHANGED <<refinedTopic, report, error>>
           ELSE /\ step' = AfterSearch
                /\ stepLog' = log
                /\ runs' = [runs EXCEPT ![r] =
                              [run EXCEPT !.pc = "map", !.calls = calls]]
                /\ lastEvent' = "searchOk"
                /\ UNCHANGED <<refinedTopic, report, error>>
    /\ UNCHANGED <<apiKey, query, envApiKey>>

\* await fetchMockSearch(plannedTopic) settles; mapContent runs up to its await
SearchReturn(r) == SearchReturned(r, fetchMockSearch(SearchTopic(runs[r])))

\* (mutant) every settling call is handled as if mapContent still awaited it
AlwaysAwaited(run) == TRUE

\* mapContent of the run is still suspended at await Promise.all(promises)
Awaited(run) == run.pc = "map"

\* the generateContent call for document i of run r settles
ExtractReturn(r, i, gen) ==
    /\ i \in DOMAIN runs[r].calls
    /\ runs[r].calls[i].status = "pending"
    /\ LET calls == [runs[r].calls EXCEPT ![i] = ExtractSettle(@, gen)]
           order == Append(runs[r].order, i)
           run   == [runs[r] EXCEPT !.calls = calls, !.order = order]
           all   == PromiseAllState(calls)
           res   == mapContent(calls, order, run.apiKey)
           late  == [runs[r].calls EXCEPT ![i] = Detached(ExtractSettle(@, gen))]
       IN  IF Awaited(run) /\ all = "rejected"
           THEN /\ Catch(r, run, res, stepLog, step)
                /\ lastEvent' = "mapFail"
           ELSE IF Awaited(run) /\ all = "fulfilled"
           THEN /\ step' = AfterMap
                /\ stepLog' = Logged(stepLog, step, AfterMap)
                /\ runs' = [runs EXCEPT ![r] =
                              [run EXCEPT !.pc = "write", !.notes = res.value]]
                /\ lastEvent' = "mapOk"
                /\ UNCHANGED <<refinedTopic, report, error>>
           ELSE /\ runs' = [runs EXCEPT ![r] =
                              IF run.pc = "done" THEN [runs[r] EXCEPT !.calls = late]
                              ELSE run]
                /\ lastEvent' = "extract"
                /\ UNCHANGED <<step, stepLog, refinedTopic, report, error>>
    /\ UNCHANGED <<apiKey, query, envApiKey>>

\* await writeReport(notes, apiKey) settles
WriteReturn(r, gen) ==
    /\ runs[r].pc = "write"
    /\ LET res == writeReport(runs[r].notes, runs[r].apiKey, gen)
           run == runs[r]
       IN  IF res.ok
           THEN /\ report' = res.value
                /\ step' = AfterWrite
                /\ stepLog' = Logged(stepLog, step, AfterWrite)
                /\ runs' = [runs EXCEPT ![r] = Ended(run)]
                /\ lastEvent' = "writeOk"
                /\ UNCHANGED <<refinedTopic, error>>
           ELSE /\ Catch(r, run, res, stepLog, step)
                /\ lastEvent' = "writeFail"
    /\ UNCHANGED <<apiKey, query, envApiKey>>

\* (mutant) a Reset System button rendered in every state
ResetSystemAlways ==
    /\ Mounted
    /\ step' = "idle"
    /\ stepLog' = Logged(stepLog, step, "idle")
    /\ lastEvent' = "resetSystem"
    /\ UNCHANGED <<apiKey, query, refinedTopic, report, error, envApiKey, runs>>

\* the Reset System button, rendered when error is set
ResetSystem ==
    /\ Mounted
    /\ error # null
    /\ step' = "idle"
    /\ stepLog' = Logged(stepLog, step, "idle")
    /\ lastEvent' = "resetSystem"
    /\ UNCHANGED <<apiKey, query, refinedTopic, report, error, envApiKey, runs>>

\* the Conduct New Research button, rendered when step === 'complete' && report
ConductNewResearch ==
    /\ Mounted
    /\ step = "complete"
    /\ ~report.isNull
    /\ step' = "idle"
    /\ query' = <<>>
    /\ report' = NullReport
    /\ refinedTopic' = <<>>
    /\ stepLog' = Logged(stepLog, step, "idle")
    /\ lastEvent' = "newResearch"
    /\ UNCHANGED <<apiKey, error, envApiKey, runs>>

Next ==
    \/ \E q \in Queries : SetQuery(q)
    \/ \E k \in ApiKeys : SetApiKey(k)
    \/ Initiate
    \/ \E r \in DOMAIN runs : \E gen \in GenOutcomes(RejectCauses, PlanResponses) : PlanReturn(r, gen)
    \/ \E r \in DOMAIN runs : SearchReturn(r)
    \/ \E r \in DOMAIN runs : \E i \in DOMAIN runs[r].calls :
          \E gen \in GenOutcomes(LaterRejectCauses, ExtractResponses(runs[r].calls[i].source)) : ExtractReturn(r, i, gen)
    \/ \E r \in DOMAIN runs : \E gen \in GenOutcomes(LaterRejectCauses, WriteResponses) : WriteReturn(r, gen)
    \/ ResetSystem
    \/ ConductNewResearch

Spec == Init /\ [][Next]_vars

\* every promise handleResearch awaits settles: the generateContent calls
\* return or fail, and the timer of fetchMockSearch fires
Settles ==
    /\ WF_vars(\E r \in DOMAIN runs : \E gen \in GenOutcomes(RejectCauses, PlanResponses) :
                  PlanReturn(r, gen))
    /\ WF_vars(\E r \in DOMAIN runs : SearchReturn(r))
    /\ WF_vars(\E r \in DOMAIN runs : \E i \in DOMAIN runs[r].calls :
                  \E gen \in GenOutcomes(LaterRejectCauses,
                                         ExtractResponses(runs[r].calls[i].source)) :
                     ExtractReturn(r, i, gen))
    /\ WF_vars(\E r \in DOMAIN runs : \E gen \in GenOutcomes(LaterRejectCauses, WriteResponses) :
                  WriteReturn(r, gen))

FairSpec == Spec /\ Settles

\* the application with mapContent called on any of Documents
NextAnyDocuments ==
    \/ Next
    \/ \E r \in DOMAIN runs : \E docs \in Documents(SearchTopic(runs[r])) :
          SearchReturned(r, docs)

AnyDocumentsSpec == Init /\ [][NextAnyDocuments]_vars

-----------------------------------------------------------------------------
(* Properties *)

HappyPath == <<"planning", "searching", "mapping", "writing", "complete">>

Stages == <<"plan", "search", "map", "write">>

\* the runs that have not returned
Active == { r \in DOMAIN runs : runs[r].pc # "done" }

OnlyWhitespace(q) == \A i \in 1..Len(q) : q[i] \in Whitespace

Orchestrator == <<step, refinedTopic, report, error, runs, stepLog>>

\* C1: while a run has not failed, the values step has taken since the run
\* started are the first stages of planning, searching, mapping, writing,
\* complete, one value per stage reached; a run whose four stages succeed has
\* taken exactly these five values, in this order.
C1_SuccessfulRunOrder ==
    /\ \A r \in Active :
          \E n \in 1..4 :
             /\ runs[r].pc = Stages[n]
             /\ stepLog = SubSeq(HappyPath, 1, n)
             /\ step = HappyPath[n]
    /\ lastEvent = "writeOk" => stepLog = HappyPath /\ step = "complete"

C1_Witness ==
    /\ lastEvent = "writeOk"
    /\ step = "complete"
    /\ stepLog = HappyPath
    /\ Required \subseteq report.fields

\* C2: a click on Initiate while step is planning, searching, mapping or
\* writing changes nothing; no run starts while another is in progress, and at
\* most one run is in progress at any time.
C2_NoOverlappingRuns ==
    [][ /\ step \in Busy => Len(runs') = Len(runs)
        /\ (lastEvent' = "initiate" /\ step \in Busy) =>
              UNCHANGED <<Orchestrator, query, apiKey>>
        /\ Cardinality({ r \in DOMAIN runs' : runs'[r].pc # "done" }) <= 1
        /\ (step' \in Busy) <=> (\E r \in DOMAIN runs' : runs'[r].pc # "done") ]_vars

C2_Witness ==
    /\ lastEvent = "initiate"
    /\ step = "mapping"
    /\ Cardinality(Active) = 1

\* C3: a failure moves step to error from the state of the failing stage, and
\* no stage is entered after it in that run; a planning failure, a missing
\* credential included, gives planning, error.
C3_FailureGoesToError ==
    /\ lastEvent = "planFail" => stepLog = <<"planning", "error">>
    /\ lastEvent = "mapFail" =>
          stepLog = <<"planning", "searching", "mapping", "error">>
    /\ lastEvent = "writeFail" =>
          stepLog = <<"planning", "searching", "mapping", "writing", "error">>
    /\ lastEvent \in {"planFail", "mapFail", "writeFail"} =>
          step = "error" /\ error # null /\ Active = {}
    /\ \A i \in DOMAIN stepLog :
          stepLog[i] = "error" =>
             /\ i > 1
             /\ stepLog[i - 1] \in Busy
             /\ \A j \in DOMAIN stepLog : j > i => stepLog[j] = "idle"

C3_Witness ==
    /\ lastEvent = "planFail"
    /\ apiKey = ""
    /\ envApiKey = ""
    /\ stepLog = <<"planning", "error">>

\* C4: a reset from error or from complete sets step to idle and leaves
\* refinedTopic, report and error cleared, and starts no run.
C4_ResetClearsAll ==
    [][ (lastEvent' \in {"resetSystem", "newResearch"} /\ step \in {"error", "complete"}) =>
           /\ step' = "idle"
           /\ refinedTopic' = <<>>
           /\ report' = NullReport
           /\ error' = null
           /\ runs' = runs ]_vars

\* the structured responses that carry the four required fields
ValidReportTexts == { ObjectText(Required, n) : n \in 0..6 }

\* C5: a response of the writer's call that is empty, does not parse or lacks
\* a required field fails the writing stage: step becomes error and no report
\* is published.
C5_InvalidResponseFails ==
    [][ \A r \in DOMAIN runs : \A resp \in WriteResponses :
           (/\ WriteReturn(r, Resolved(resp))
            /\ ~resp.hasText \/ resp.text \notin ValidReportTexts) =>
              /\ step' = "error"
              /\ error' # null
              /\ report' = NullReport ]_vars

\* C6: the notes handed to writeReport are the texts of the calls of documents
\* 1, 2, 3 joined by newlines in document order, whatever the order in which
\* the calls settled.
C6_NotesInDocumentOrder ==
    \A r \in DOMAIN runs :
       runs[r].pc = "write" =>
          LET c == runs[r].calls
              d == runs[r].docs
          IN  /\ Len(d) = 3
              /\ DOMAIN c = DOMAIN d
              /\ \A i \in DOMAIN c :
                    /\ c[i].status = "fulfilled"
                    /\ c[i].source = d[i].source
                    /\ c[i].value \in {<<>>, <<"Facts of ", d[i].source>>}
              /\ runs[r].notes =
                    c[1].value \o <<"\n">> \o c[2].value \o <<"\n">> \o c[3].value

C6_Witness ==
    \E r \in DOMAIN runs :
       /\ runs[r].pc = "write"
       /\ runs[r].order = <<3, 2, 1>>
       /\ \A i \in DOMAIN runs[r].calls : runs[r].calls[i].value # <<>>
       /\ step = "writing"

\* C7: the rejection of one per-document call while the run is in mapping
\* ends the run in the catch block with the extraction error, whatever the
\* other calls did: no notes, no report, writing not entered; an ended run
\* stays ended, and a run that is mapping or writing has no rejected call.
C7_OneFailureFailsStage ==
    [][ /\ \A r \in DOMAIN runs : \A i \in DOMAIN runs[r].calls : \A c \in RejectCauses :
              (runs[r].pc = "map" /\ ExtractReturn(r, i, Rejected(c))) =>
                 /\ step' = "error"
                 /\ error' = "Could not extract facts from sources."
                 /\ report' = NullReport
                 /\ runs'[r].pc = "done"
                 /\ runs'[r].notes = <<>>
                 /\ \A k \in DOMAIN stepLog' : stepLog'[k] \notin {"writing", "complete"}
        /\ \A r \in DOMAIN runs : runs[r].pc = "done" => runs'[r].pc = "done"
        /\ \A r \in DOMAIN runs' :
              runs'[r].pc = "write" =>
                 \A i \in DOMAIN runs'[r].calls : runs'[r].calls[i].status = "fulfilled"
        /\ \A r \in DOMAIN runs' :
              runs'[r].pc = "map" =>
                 \A i \in DOMAIN runs'[r].calls : runs'[r].calls[i].status # "rejected" ]_vars

\* the stage has just failed with no call left in flight: the two other calls
\* had been fulfilled when the third was rejected
C7_Witness ==
    /\ lastEvent = "mapFail"
    /\ step = "error"
    /\ error = "Could not extract facts from sources."
    /\ \E r \in DOMAIN runs :
          /\ Len(runs[r].calls) = 3
          /\ \A i \in DOMAIN runs[r].calls : runs[r].calls[i].status = "settled"

\* C8: Initiate with a query that is empty or only whitespace changes neither
\* step, refinedTopic, report, error nor the runs: no stage is invoked.
C8_EmptyQueryIsNoOp ==
    [][ (lastEvent' = "initiate" /\ OnlyWhitespace(query)) =>
           UNCHANGED <<Orchestrator, query, apiKey>> ]_vars

C8_Witness ==
    /\ lastEvent = "initiate"
    /\ query = <<" ">>
    /\ step = "error"

\* C9: when the planner's call resolves with the empty string, refinedTopic
\* becomes the query as submitted, no error is set and step becomes searching.
C9_EmptyPlanFallsBack ==
    [][ \A r \in DOMAIN runs :
           (/\ runs[r].apiKey # "" \/ envApiKey # ""
            /\ PlanReturn(r, Resolved(Text(<<>>)))) =>
              /\ refinedTopic' = runs[r].query
              /\ runs'[r].plannedTopic = runs[r].query
              /\ runs'[r].pc = "search"
              /\ step' = "searching"
              /\ error' = null ]_vars

C9_Witness ==
    /\ lastEvent = "planOk"
    /\ step = "searching"
    /\ refinedTopic = <<" ", "a">>
    /\ error = null

\* C10: two failed runs whose failures are of different cause classes have
\* surfaced different messages.
C10_MessageNamesCause ==
    \A r1, r2 \in DOMAIN runs :
       (/\ runs[r1].err # null
        /\ runs[r2].err # null
        /\ runs[r1].cause # runs[r2].cause) =>
          runs[r1].err # runs[r2].err

\* C11 as claimed: a step taken by a run that is mapping and that leaves one
\* of its calls outstanding leaves step at mapping.
C11_BarrierBeforeAnyTransition ==
    [][ \A r \in DOMAIN runs :
           (/\ runs[r].pc = "map"
            /\ \E i \in DOMAIN runs'[r].calls : runs'[r].calls[i].status = "pending") =>
              step' = "mapping" ]_vars

\* C11 (amended): a run that is mapping moves to writing only on the step
\* that fulfils its last outstanding call; while a call is outstanding it
\* stays in mapping unless a call is rejected, which moves step to error at
\* once, the other calls still outstanding or not.
C11_BarrierBeforeWriting ==
    [][ \A r \in DOMAIN runs :
           runs[r].pc = "map" =>
              /\ step = "mapping"
              /\ step' \in {"mapping", "writing", "error"}
              /\ step' = "mapping" <=> runs'[r].pc = "map"
              /\ step' = "writing" <=>
                    /\ runs'[r].pc = "write"
                    /\ \A i \in DOMAIN runs'[r].calls :
                          runs'[r].calls[i].status = "fulfilled"
              /\ step' = "error" <=>
                    \E i \in DOMAIN runs[r].calls : \E c \in RejectCauses :
                       ExtractReturn(r, i, Rejected(c))
              /\ (\E i \in DOMAIN runs'[r].calls : runs'[r].calls[i].status = "pending")
                    => step' \in {"mapping", "error"} ]_vars

\* two calls have been fulfilled, the third is outstanding: step is mapping
C11_Witness ==
    /\ lastEvent = "extract"
    /\ step = "mapping"
    /\ \E r \in DOMAIN runs :
          /\ runs[r].pc = "map"
          /\ Cardinality({ i \in DOMAIN runs[r].calls :
                             runs[r].calls[i].status = "fulfilled" }) = 2
          /\ Cardinality({ i \in DOMAIN runs[r].calls :
                             runs[r].calls[i].status = "pending" }) = 1

\* C12: the step on which a run fails sets error to a non-empty message and
\* changes neither refinedTopic nor report; when the run's planTopic had
\* returned, refinedTopic in the error state is still what it returned.
C12_FailureKeepsPublished ==
    [][ \A r \in DOMAIN runs :
           (runs[r].pc # "done" /\ runs'[r].pc = "done" /\ step' = "error") =>
              /\ error' \notin {null, ""}
              /\ refinedTopic' = refinedTopic
              /\ report' = report
              /\ runs[r].pc \in {"search", "map", "write"} =>
                    /\ refinedTopic' = runs[r].plannedTopic
                    /\ refinedTopic' # <<>> ]_vars

\* writeReport has failed after planTopic returned "b": the topic is kept
C12_Witness ==
    /\ lastEvent = "writeFail"
    /\ step = "error"
    /\ error = "Could not write the final report."
    /\ refinedTopic = <<"b">>

\* C13: Initiate with a query that is not empty after trimming, in step
\* complete or error, starts a run: step becomes planning and refinedTopic,
\* report and error are empty in that same step, the new run still waiting
\* for planTopic; they stay empty for as long as step is planning.
C13_RerunClearsPrevious ==
    [][ /\ (/\ lastEvent' = "initiate"
            /\ step \in {"complete", "error"}
            /\ ~OnlyWhitespace(query)) =>
              /\ step' = "planning"
              /\ refinedTopic' = <<>>
              /\ report' = NullReport
              /\ error' = null
              /\ Len(runs') = Len(runs) + 1
              /\ runs'[Len(runs')].pc = "plan"
              /\ runs'[Len(runs')].query = query
        /\ step' = "planning" =>
              /\ refinedTopic' = <<>>
              /\ report' = NullReport
              /\ error' = null ]_vars

\* a second run has started after the first one ended: nothing of the first
\* run is left on screen
C13_Witness ==
    /\ lastEvent = "initiate"
    /\ step = "planning"
    /\ Len(runs) = 2
    /\ runs[1].pc = "done"
    /\ runs[2].pc = "plan"
    /\ refinedTopic = <<>>
    /\ error = null

\* the run in progress is not cancelled: no step sets step to idle, removes
\* a run or starts another one while step is one of the four stages
NotCancelled ==
    step \in Busy =>
       /\ step' # "idle"
       /\ step' \in Busy \cup {"complete", "error"}
       /\ Len(runs') = Len(runs)
       /\ \A r \in DOMAIN runs : runs[r].pc = "done" => runs'[r].pc = "done"

\* C14: if every awaited call settles, a run that has started ends: from a
\* step of planning, searching, mapping or writing, step becomes complete or
\* error, and until then the run is not cancelled and step is never idle.
C14_AcceptedRunEnds ==
    /\ [](step \in Busy => <>(step \in {"complete", "error"}))
    /\ [][NotCancelled]_vars

\* a run that was accepted has gone through every stage and ended in error
C14_Witness ==
    /\ step = "error"
    /\ lastEvent = "writeFail"
    /\ stepLog = <<"planning", "searching", "mapping", "writing", "error">>

\* C15 as claimed: a report on screen that has all four required fields has
\* between 2 and 5 key points.
C15_TwoToFiveKeyPoints ==
    (step = "complete" /\ ~report.isNull /\ Required \subseteq report.fields) =>
       report.key_points \in 2..5

\* C16: when mapContent is called with no documents it returns the empty
\* string instead of throwing: step goes through mapping to writing, the
\* run's notes are empty and no error is set.
C16_NoDocumentsGivesEmptyNotes ==
    [][ \A r \in DOMAIN runs :
           SearchReturned(r, <<>>) =>
              /\ step' = "writing"
              /\ stepLog' = stepLog \o <<"mapping", "writing">>
              /\ runs'[r].pc = "write"
              /\ runs'[r].notes = <<>>
              /\ error' = null ]_vars

\* a run is waiting for writeReport, having extracted from no documents
C16_Witness ==
    /\ lastEvent = "mapOk"
    /\ step = "writing"
    /\ \E r \in DOMAIN runs :
          /\ runs[r].pc = "write"
          /\ runs[r].docs = <<>>
          /\ runs[r].calls = <<>>
          /\ runs[r].notes = <<>>

\* the steps in which the planner's output is on screen
AfterPlanning == {"searching", "mapping", "writing", "complete"}

\* C17: whenever step is searching, mapping, writing or complete, refinedTopic
\* is not empty and is the topic planTopic returned to the current run: it
\* is set to that value on the step that leaves planning, equals the run's
\* plannedTopic while the run goes on, and is unchanged when the run completes.
C17_RefinedTopicIsPlannerOutput ==
    /\ [](step \in AfterPlanning =>
             /\ refinedTopic # <<>>
             /\ \A r \in Active : /\ runs[r].pc # "plan"
                                  /\ refinedTopic = runs[r].plannedTopic)
    /\ [][ \A r \in DOMAIN runs :
              /\ (runs[r].pc = "plan" /\ step' \in AfterPlanning) =>
                    \E gen \in GenOutcomes(RejectCauses, PlanResponses) :
                       /\ PlanReturn(r, gen)
                       /\ refinedTopic' = planTopic(runs[r].query, runs[r].apiKey, gen).value
              /\ (runs[r].pc = "write" /\ step' = "complete") =>
                    refinedTopic' = runs[r].plannedTopic ]_vars

\* the run has completed and the topic on screen is the planner's "b", not
\* the query " a" it was given
C17_Witness ==
    /\ step = "complete"
    /\ lastEvent = "writeOk"
    /\ query = <<" ", "a">>
    /\ refinedTopic = <<"b">>

\* the text of a document is written around the topic it was searched for
About(doc, topic) ==
    /\ Len(doc.content) = Len(topic) + 2
    /\ SubSeq(doc.content, 2, Len(doc.content) - 1) = topic

\* C18: every stage of a run works on what the stage before it produced. The
\* search is started with the planner's topic, which exists; the documents
\* extracted from are those the search returned for that topic, one call per
\* document, built from that document; the notes writeReport is waiting on
\* are the joined results of those calls, all of them fulfilled.
C18_StagesConsumePredecessor ==
    \A r \in Active :
       LET run == runs[r]
       IN  /\ run.pc = "plan" =>
                 run.plannedTopic = <<>> /\ run.docs = <<>> /\ run.calls = <<>>
           /\ run.pc \in {"search", "map", "write"} =>
                 run.plannedTopic # <<>> /\ run.plannedTopic = refinedTopic
           /\ run.pc = "search" => run.docs = <<>> /\ run.calls = <<>>
           /\ run.pc \in {"map", "write"} =>
                 /\ Len(run.docs) = 3
                 /\ \A i \in DOMAIN run.docs : About(run.docs[i], run.plannedTopic)
                 /\ DOMAIN run.calls = DOMAIN run.docs
                 /\ \A i \in DOMAIN run.calls :
                       run.calls[i].prompt =
                          <<"Extract key facts from: ", run.docs[i].source, ": ">>
                          \o run.docs[i].content
           /\ run.pc # "write" => run.notes = <<>>
           /\ run.pc = "write" =>
                 /\ \A i \in DOMAIN run.calls : run.calls[i].status = "fulfilled"
                 /\ run.notes = Join([i \in DOMAIN run.calls |-> run.calls[i].value],
                                     <<"\n">>)

\* writeReport is waiting on notes extracted from documents about the
\* planner's topic "b", which is not the query " a"
C18_Witness ==
    \E r \in Active :
       /\ runs[r].pc = "write"
       /\ runs[r].query = <<" ", "a">>
       /\ runs[r].plannedTopic = <<"b">>
       /\ \A i \in DOMAIN runs[r].docs : About(runs[r].docs[i], <<"b">>)
       /\ runs[r].notes = <<"Facts of ", "Academic Paper", "\n",
                            "Facts of ", "Tech Blog", "\n",
                            "Facts of ", "Market Report">>

\* C19 as claimed: step is complete exactly when a report is published.
C19_CompleteIffReport ==
    step = "complete" <=> ~report.isNull

\* C20: an extraction call that settles after its run has ended changes
\* nothing but itself: step, refinedTopic, report, error and the log of step
\* are unchanged, the ended run stays ended with the error it threw, and
\* every other run, a later one included, is left as it was.
C20_LateCallsChangeNothing ==
    [][ \A r \in DOMAIN runs : \A i \in DOMAIN runs[r].calls :
           (/\ runs[r].pc = "done"
            /\ runs[r].calls[i].status = "pending"
            /\ runs'[r].calls[i].status # "pending") =>
              /\ UNCHANGED <<step, refinedTopic, report, error, stepLog, query, apiKey>>
              /\ Len(runs') = Len(runs)
              /\ \A o \in DOMAIN runs : o # r => runs'[o] = runs[o]
              /\ runs'[r].pc = "done"
              /\ runs'[r].err = runs[r].err
              /\ \A j \in DOMAIN runs[r].calls :
                    j # i => runs'[r].calls[j] = runs[r].calls[j] ]_vars

\* a call of the first run, which failed, has just settled while the second
\* run is waiting for planTopic
C20_Witness ==
    /\ lastEvent = "extract"
    /\ Len(runs) = 2
    /\ runs[1].pc = "done"
    /\ runs[1].err = "Could not extract facts from sources."
    /\ \A i \in DOMAIN runs[1].calls : runs[1].calls[i].status = "settled"
    /\ runs[2].pc = "plan"
    /\ step = "planning"
    /\ error = null

=============================================================================
